---- MODULE Spec2Model ----
(***************************************************************************)
(* Model of the image-caching worker of src/src/worker.ts (the handler     *)
(* exported at lines 176-353 and its helpers at lines 127-174).            *)
(*                                                                         *)
(* A string is modelled by its structure.  A candidate source URL is a     *)
(* record  [kind, host, dirs, file, query]:  kind says whether the text    *)
(* parses as a URL at all, host is the host as written (any letter case),  *)
(* dirs the path segments before the last one, file the last path segment  *)
(* split at its dots, query the text after "?".  Keys, paths and the       *)
(* cached_url are sequences of tokens.                                     *)
(***************************************************************************)
EXTENDS Integers, Sequences, FiniteSets, TLC

\* ------------------------------------------------------------------ bounds

\* Number of requests the worker receives in one behaviour.
MaxRequests == 2

\* Request handlers that may be in flight at the same time.
Procs == {1, 2}

\* ------------------------------------------------------- strings and dates

HexChars == <<"0","1","2","3","4","5","6","7","8","9","a","b","c","d","e","f">>

\* Number.prototype.toString(): the decimal digits of n.
RECURSIVE ToDigits(_)
ToDigits(n) ==
  IF n < 10 THEN <<HexChars[n + 1]>>
  ELSE ToDigits(n \div 10) \o <<HexChars[(n % 10) + 1]>>

\* String.prototype.padStart(2, '0')
PadStart2(s) == IF Len(s) = 0 THEN <<"0", "0">>
                ELSE IF Len(s) = 1 THEN <<"0">> \o s
                ELSE s

\* String.prototype.toLowerCase() on the strings the model uses.
ToLowerCase(s) ==
  CASE s = "PNG" -> "png"
    [] s = "JPG" -> "jpg"
    [] s = "CDN.DISCORDAPP.COM" -> "cdn.discordapp.com"
    [] s = "Images-Ext-1.discordapp.net" -> "images-ext-1.discordapp.net"
    [] OTHER -> s

\* A Date as the getters of lines 286-288 see it: getMonth() is 0-based.
Dates == << [fullYear |-> 2025, month |-> 0,  date |-> 11],
            [fullYear |-> 2025, month |-> 10, date |-> 1] >>

\* The folder name without the padding of month and day.
FolderNameUnpadded(d) ==
  ToDigits(d.fullYear) \o ToDigits(d.month + 1) \o ToDigits(d.date)

\* lines 286-288: YYYY + MM + DD
FolderName(d) ==
  ToDigits(d.fullYear) \o PadStart2(ToDigits(d.month + 1)) \o PadStart2(ToDigits(d.date))

\* ------------------------------------------------------------------- URLs

NoUrl == [kind |-> "undefined", host |-> "", dirs |-> <<>>, file |-> <<>>, query |-> ""]

Url(h, d, f, q) == [kind |-> "url", host |-> h, dirs |-> d, file |-> f, query |-> q]

\* Values of the url field of a JSON body that are not URLs: the field is
\* missing, is the empty string, or is text that new URL() rejects.
EmptyUrl == [NoUrl EXCEPT !.kind = "empty"]
GarbageUrl == [NoUrl EXCEPT !.kind = "garbage"]

\* Truthiness of the url field (line 197).
Falsy(u) == u.kind \in {"undefined", "empty"}

\* new URL(s): throws unless the text is a URL.
Parses(u) == u.kind = "url"

\* URL.hostname: the parser lower-cases the host.
Hostname(u) == ToLowerCase(u.host)

\* URL.toString(): the serialisation of the parsed URL.
Href(u) == [u EXCEPT !.host = ToLowerCase(u.host)]

validDomains == {"cdn.discordapp.com", "media.discordapp.net", "images-ext-1.discordapp.net"}

\* pathname.includes('/' + marker + '/'): a segment equal to the marker
\* that is followed by a slash, i.e. one that is not the last segment.
PathnameIncludes(u, marker) == \E i \in 1..Len(u.dirs) : u.dirs[i] = marker

\* The markers looked for in the whole URL text instead of the pathname.
isDiscordUrlAnywhere(u) ==
  /\ Parses(u)
  /\ Hostname(u) \in validDomains
  /\ \/ PathnameIncludes(u, "attachments") \/ PathnameIncludes(u, "external")
     \/ u.query \in {"/attachments/", "/external/"}

\* lines 139-157
isDiscordUrl(u) ==
  /\ Parses(u)
  /\ Hostname(u) \in validDomains
  /\ (PathnameIncludes(u, "attachments") \/ PathnameIncludes(u, "external"))

\* The swap with its first branch left out.
getAlternativeDiscordUrlOneWay(u) ==
  IF ~Parses(u) THEN u
  ELSE IF Hostname(u) = "media.discordapp.net"
       THEN [Href(u) EXCEPT !.host = "cdn.discordapp.com"]
  ELSE u

\* The swap with a mirror given to every host.
getAlternativeDiscordUrlAlways(u) ==
  IF ~Parses(u) THEN u
  ELSE IF Hostname(u) = "media.discordapp.net"
       THEN [Href(u) EXCEPT !.host = "cdn.discordapp.com"]
  ELSE [Href(u) EXCEPT !.host = "media.discordapp.net"]

\* lines 159-174
getAlternativeDiscordUrl(u) ==
  IF ~Parses(u) THEN u
  ELSE IF Hostname(u) = "cdn.discordapp.com"
       THEN [Href(u) EXCEPT !.host = "media.discordapp.net"]
  ELSE IF Hostname(u) = "media.discordapp.net"
       THEN [Href(u) EXCEPT !.host = "cdn.discordapp.com"]
  ELSE u

\* --------------------------------------------------- extension and hashing

AllowedExtensions == {"jpg", "jpeg", "png", "gif", "webp"}

Last(s) == s[Len(s)]

\* lines 269-271: the text after the last dot of the last path segment (the
\* whole segment when it has no dot), lower-cased.  The pathname of a parsed
\* URL holds no "?", so split('?')[0] changes nothing.
fileExt(u) == ToLowerCase(Last(u.file))

\* line 273
extensionAllowed(ext) == ext # "" /\ ext \in AllowedExtensions

\* The characters of a URL's text, as tokens.
RECURSIVE DirsText(_)
DirsText(dirs) ==
  IF dirs = <<>> THEN <<>> ELSE <<Head(dirs), "/">> \o DirsText(Tail(dirs))

RECURSIVE FileText(_)
FileText(file) ==
  IF Len(file) <= 1 THEN file ELSE <<Head(file), ".">> \o FileText(Tail(file))

UrlText(u) ==
  <<"https://", u.host, "/">> \o DirsText(u.dirs) \o FileText(u.file)
    \o (IF u.query = "" THEN <<>> ELSE <<"?", u.query>>)

Alphabet ==
  << "https://", "/", ".", "?", "",
     "cdn.discordapp.com", "media.discordapp.net", "images-ext-1.discordapp.net",
     "CDN.DISCORDAPP.COM", "Images-Ext-1.discordapp.net", "evil.example.com",
     "attachments", "external", "other", "1",
     "a", "b", "png", "PNG", "jpg", "JPG", "gif", "txt", "noext",
     "ex=1", "ex=2", "/attachments/" >>

\* TextEncoder.encode, one number per token.
Encode(text) ==
  [i \in 1..Len(text) |-> CHOOSE c \in 1..Len(Alphabet) : Alphabet[c] = text[i]]

HashModulus == 65536

\* crypto.subtle.digest: a fixed function of the message bytes.  The model
\* digest is a polynomial hash; like SHA-256 cut to 8 characters it is
\* deterministic and not injective.
RECURSIVE Digest(_, _)
Digest(bytes, h) ==
  IF bytes = <<>> THEN h
  ELSE Digest(Tail(bytes), (h * 31 + Head(bytes)) % HashModulus)

RECURSIVE Pow16(_)
Pow16(n) == IF n = 0 THEN 1 ELSE 16 * Pow16(n - 1)

HexLength == 64

\* line 136, up to join(''): the 64 hexadecimal characters of the digest.
HexString(h) ==
  [i \in 1..HexLength |->
     HexChars[(((h \div Pow16((i - 1) % 4)) + ((i - 1) \div 4)) % 16) + 1]]

ShortHashLength == 8

\* The hash of the URL text, query included.
createShortHashWithParams(u) ==
  SubSeq(HexString(Digest(Encode(UrlText(Href(u))), 7)), 1, ShortHashLength)

\* lines 127-137: the hash of the URL text with its query removed.
createShortHash(u) ==
  SubSeq(HexString(Digest(Encode(UrlText([Href(u) EXCEPT !.query = ""])), 7)),
         1, ShortHashLength)

\* line 290
FullPath(folderName, shortHash, ext) ==
  folderName \o <<"/">> \o shortHash \o <<".", ext>>

\* The hash taken from the URL that was answered.
StoragePathOfFinal(discordUrl, discordUrlToTry, d) ==
  FullPath(FolderName(d), createShortHash(discordUrlToTry), fileExt(discordUrlToTry))

\* lines 269-290: the path under which a write for discordUrl, answered at
\* discordUrlToTry on day d, stores the image.
StoragePath(discordUrl, discordUrlToTry, d) ==
  FullPath(FolderName(d), createShortHash(discordUrl), fileExt(discordUrlToTry))

Origin == "https://imgcdn.ww0.ca"

\* line 301
CachedUrl(fullPath) == <<Origin, "/">> \o fullPath

\* URL.pathname of a request URL: the text after the origin.
Pathname(requestUrl) == Tail(requestUrl)

\* line 323: pathname.substring(1)
KeyOf(requestUrl) == Tail(Pathname(requestUrl))

\* ------------------------------------------------- source responses, store

NoCT == <<>>

ImagePng == <<"image", "png">>
TextHtml == <<"text", "html">>
JsonCT == <<"application", "json">>
TextPlain == <<"text", "plain">>
OctetStream == <<"application", "octet-stream">>

CacheControl == "public, max-age=31536000"

SourceResponse(s, ct, b) == [status |-> s, contentType |-> ct, body |-> b]

NoResponse == SourceResponse(0, NoCT, "")

\* What the source may answer to one outbound fetch.
SourceResponses ==
  { SourceResponse(200, ImagePng, "bytesA"),
    SourceResponse(200, ImagePng, "bytesB"),
    SourceResponse(200, TextHtml, "page"),
    SourceResponse(200, NoCT, "bytesA"),
    SourceResponse(403, TextHtml, "denied"),
    SourceResponse(404, TextHtml, "missing"),
    SourceResponse(500, TextHtml, "broken") }

\* Every response taken for a success.
OkAnyStatus(r) == TRUE

\* Response.ok: a status in 200..299.
Ok(r) == r.status >= 200 /\ r.status <= 299

\* Any declared content type accepted.
StartsWithImageAny(ct) == ct # NoCT

\* line 256: contentType?.startsWith('image/')
StartsWithImage(ct) == ct # NoCT /\ Len(ct) >= 2 /\ ct[1] = "image"

\* An object of the bucket.  source is history: the response whose body was
\* stored.
NoObject == [key |-> <<>>, body |-> "", httpMetadata |-> [contentType |-> NoCT, cacheControl |-> ""],
             source |-> NoResponse]

\* lines 292-297: the options object given to put().  The content type is
\* a property of the options themselves; httpMetadata holds cacheControl
\* only.
PutOptions(ct) ==
  [contentType |-> ct,
   httpMetadata |-> [contentType |-> NoCT, cacheControl |-> CacheControl]]

\* A put that replaces the whole bucket by the new object.
BucketPutAlone(bucket, key, r, options) ==
  {[key |-> key, body |-> r.body, httpMetadata |-> options.httpMetadata, source |-> r]}

\* R2Bucket.put(key, value, options): the object replaces any object of the
\* same key and carries options.httpMetadata.
BucketPut(bucket, key, r, options) ==
  {o \in bucket : o.key # key} \cup
    {[key |-> key, body |-> r.body, httpMetadata |-> options.httpMetadata, source |-> r]}

\* R2Bucket.get(key): the object, or null.
BucketGet(bucket, key) ==
  IF \E o \in bucket : o.key = key THEN CHOOSE o \in bucket : o.key = key ELSE NoObject

\* obj === undefined, which get() never returns.
IsUndefined(obj) == FALSE

\* line 324: obj === null
IsNull(obj) == obj = NoObject

\* ---------------------------------------------------------------- requests

SourceUrls ==
  { Url("cdn.discordapp.com", <<"attachments", "1">>, <<"a", "png">>, "ex=1"),
    Url("media.discordapp.net", <<"attachments", "1">>, <<"a", "png">>, "ex=1"),
    Url("Images-Ext-1.discordapp.net", <<"external">>, <<"b", "JPG">>, ""),
    Url("cdn.discordapp.com", <<"attachments", "1">>, <<"png">>, ""),
    Url("cdn.discordapp.com", <<"attachments">>, <<"a", "txt">>, ""),
    Url("cdn.discordapp.com", <<"attachments">>, <<"">>, ""),
    Url("evil.example.com", <<"attachments", "1">>, <<"a", "png">>, ""),
    Url("cdn.discordapp.com", <<"other">>, <<"a", "png">>, "/attachments/"),
    Url("cdn.discordapp.com", <<>>, <<"attachments">>, "") }

\* The body of a request as request.json() sees it.
Body(k, u) == [kind |-> k, url |-> u]

Bodies ==
  { Body("invalid", NoUrl),    \* no body, or text that is not JSON
    Body("null", NoUrl),       \* the JSON value null
    Body("scalar", NoUrl),     \* a JSON number, string or boolean
    Body("object", NoUrl),     \* an object without a url field
    Body("object", EmptyUrl),
    Body("object", GarbageUrl) } \cup
  { Body("object", u) : u \in SourceUrls }

Request(m, u, b) == [method |-> m, url |-> u, body |-> b]

NoRequest == Request("", <<>>, Body("invalid", NoUrl))

CachePath == <<"/", "cache">>

GetKeys ==
  { StoragePath(u, u, Dates[1]) :
      u \in { v \in SourceUrls : isDiscordUrl(v) /\ Hostname(v) = "cdn.discordapp.com"
                                  /\ extensionAllowed(fileExt(v)) } }
  \cup { <<>>, <<"other">> }

Requests ==
  { Request("POST", <<Origin>> \o CachePath, b) : b \in Bodies } \cup
  { Request("GET", <<Origin, "/">> \o k, Body("invalid", NoUrl)) : k \in GetKeys } \cup
  { Request("GET", <<Origin>> \o CachePath, Body("invalid", NoUrl)),
    Request("POST", <<Origin, "/", "other">>, Body("object", NoUrl)),
    Request("DELETE", <<Origin>> \o CachePath, Body("invalid", NoUrl)) }

\* A GET routed to the bucket whatever its path.
IsObjectGetAnyPath(r) == r.method = "GET"

\* line 181
IsCachePost(r) == r.method = "POST" /\ Pathname(r.url) = CachePath

\* line 322
IsObjectGet(r) == r.method = "GET" /\ Pathname(r.url) # CachePath

\* --------------------------------------------------------------- responses

NoOut ==
  [status |-> 0, contentType |-> NoCT, jstatus |-> "none", message |-> "", body |-> "",
   cachedUrl |-> <<>>, originalUrl |-> NoUrl, finalUrl |-> NoUrl,
   attemptedUrls |-> <<>>, hash |-> <<>>, path |-> <<>>]

JsonError(code, msg) ==
  [NoOut EXCEPT !.status = code, !.contentType = JsonCT, !.jstatus = "error", !.message = msg]

TextResponse(code, text) ==
  [NoOut EXCEPT !.status = code, !.contentType = TextPlain, !.body = text]

\* ------------------------------------------------------------------- state

VARIABLES
  store,     \* env.MY_BUCKET: the set of stored objects, one per key
  today,     \* index in Dates of the day new Date() reports
  nreq,      \* requests received so far
  pc,        \* pc[p]: the await at which handler p is suspended
  req,       \* req[p]: the request handler p serves
  loc,       \* loc[p]: the local variables of handler p
  fetched,   \* fetched[p]: history of the outbound fetches of handler p
  out,       \* out[p]: the Response handler p returned
  written,   \* history: the keys ever put
  derive,    \* inputs and results of the path derivation (SpecDerive only)
  race       \* history: the write that ended first of two writes for one URL

vars == <<store, today, nreq, pc, req, loc, fetched, out, written, derive, race>>

NoLoc ==
  [discordUrl |-> NoUrl, discordUrlToTry |-> NoUrl, attemptedUrls |-> <<>>,
   response |-> NoResponse, contentType |-> NoCT, fileExt |-> "",
   shortHash |-> <<>>, fullPath |-> <<>>, obj |-> NoObject,
   day |-> 0,              \* history: index in Dates of the day read at line 285
   storeThrew |-> FALSE,   \* history: a put or get of this request threw
   puts |-> 0]             \* history: puts of this request that completed

\* lines 218-226: the names of the request headers of every fetch.
fetchOptions == {"User-Agent", "Accept", "Accept-Language", "Referer", "Origin"}

\* One outbound fetch and how it ended: status 0 stands for a fetch that
\* threw (a network error).
Fetched(u, r) ==
  [url |-> u, status |-> r.status, contentType |-> r.contentType, headers |-> fetchOptions]

\* The outcome of a fetch that threw.
Threw == SourceResponse(0, NoCT, "")

\* No write has ended while another write for its URL was in flight.
NoRace ==
  [peer |-> 0, url |-> NoUrl, day |-> 0, cachedUrl |-> <<>>, response |-> NoResponse]

NoDerive ==
  [phase |-> "off", url1 |-> NoUrl, url2 |-> NoUrl, day1 |-> Dates[1], day2 |-> Dates[1],
   path1 |-> <<>>, again1 |-> <<>>, path2 |-> <<>>, later1 |-> <<>>]

Init ==
  /\ store = {}
  /\ today = 1
  /\ nreq = 0
  /\ pc = [p \in Procs |-> "idle"]
  /\ req = [p \in Procs |-> NoRequest]
  /\ loc = [p \in Procs |-> NoLoc]
  /\ fetched = [p \in Procs |-> <<>>]
  /\ out = [p \in Procs |-> NoOut]
  /\ written = {}
  /\ derive = NoDerive
  /\ race = NoRace

\* No handler holds a response it has not delivered yet.  A continuation
\* that ends a request returns the Response in the same turn of the event
\* loop; the model shows that turn as two steps (Return, then Deliver), so
\* no other continuation runs between them.
Quiet == \A q \in Procs : pc[q] # "done"

\* Handler p returns response o.
Return(p, o) ==
  /\ pc' = [pc EXCEPT ![p] = "done"]
  /\ out' = [out EXCEPT ![p] = o]

\* lines 179-216 and 337-340: a request arrives; the handler routes it, and
\* for POST /cache reads the body, checks the url field and issues the first
\* fetch (line 230).
Start(p) ==
  /\ pc[p] = "idle"
  /\ \A q \in Procs : q < p => pc[q] # "idle"   \* the first free handler
  /\ Quiet
  /\ nreq < MaxRequests
  /\ nreq' = nreq + 1
  /\ \E r \in Requests :
       /\ req' = [req EXCEPT ![p] = r]
       /\ fetched' = [fetched EXCEPT ![p] = <<>>]
       /\ IF IsCachePost(r)
          THEN IF r.body.kind = "invalid"
               THEN /\ Return(p, JsonError(400, "Invalid JSON in request body"))
                    /\ loc' = [loc EXCEPT ![p] = NoLoc]
               ELSE IF r.body.kind = "null"
               THEN \* line 195 destructures null: a TypeError, caught at line 342
                    /\ Return(p, JsonError(500, "Cannot destructure property"))
                    /\ loc' = [loc EXCEPT ![p] = NoLoc]
               ELSE LET discordUrl == r.body.url IN
                    IF Falsy(discordUrl)
                    THEN /\ Return(p, JsonError(400, "URL is required in request body"))
                         /\ loc' = [loc EXCEPT ![p] = NoLoc]
                    ELSE IF ~isDiscordUrl(discordUrl)
                    THEN /\ Return(p, JsonError(400, "Invalid Discord URL"))
                         /\ loc' = [loc EXCEPT ![p] = [NoLoc EXCEPT !.discordUrl = discordUrl]]
                    ELSE /\ pc' = [pc EXCEPT ![p] = "fetch1"]
                         /\ out' = [out EXCEPT ![p] = NoOut]
                         /\ loc' = [loc EXCEPT ![p] =
                                      [NoLoc EXCEPT !.discordUrl = discordUrl,
                                                    !.discordUrlToTry = discordUrl]]
          ELSE IF IsObjectGet(r)
          THEN /\ pc' = [pc EXCEPT ![p] = "get"]
               /\ out' = [out EXCEPT ![p] = NoOut]
               /\ loc' = [loc EXCEPT ![p] = NoLoc]
          ELSE /\ Return(p, TextResponse(404, "Not found"))
               /\ loc' = [loc EXCEPT ![p] = NoLoc]
  /\ UNCHANGED <<store, today, written, derive, race>>

\* lines 242-282: the checks on the response of the last fetch, up to the
\* await of createShortHash at line 284.
Validate(p, response, discordUrlToTry, attemptedUrls) ==
  LET l == [loc[p] EXCEPT !.response = response,
                          !.discordUrlToTry = discordUrlToTry,
                          !.attemptedUrls = attemptedUrls,
                          !.contentType = response.contentType]
      ext == fileExt(discordUrlToTry)
  IN
  IF ~Ok(response)
  THEN /\ Return(p, [JsonError(response.status, "Failed to fetch Discord image")
                       EXCEPT !.originalUrl = loc[p].discordUrl,
                              !.attemptedUrls = attemptedUrls])
       /\ loc' = [loc EXCEPT ![p] = l]
  ELSE IF ~StartsWithImage(response.contentType)
  THEN /\ Return(p, JsonError(400, "Invalid content type"))
       /\ loc' = [loc EXCEPT ![p] = l]
  ELSE IF ~extensionAllowed(ext)
  THEN /\ Return(p, JsonError(400, "Invalid file extension"))
       /\ loc' = [loc EXCEPT ![p] = [l EXCEPT !.fileExt = ext]]
  ELSE /\ pc' = [pc EXCEPT ![p] = "hash"]
       /\ out' = out
       /\ loc' = [loc EXCEPT ![p] = [l EXCEPT !.fileExt = ext]]

\* line 313: the catch of the inner try block.
FetchError(p) ==
  Return(p, [JsonError(500, "Fetch error") EXCEPT !.originalUrl = loc[p].discordUrl])

\* The retry taken after any failure status.
RetryOnAnyFailure(response) == ~Ok(response)

\* line 234
RetryOn(response) == ~Ok(response) /\ response.status = 403

\* lines 230-240: the first fetch completes.
Fetch1(p) ==
  /\ pc[p] = "fetch1"
  /\ Quiet
  /\ \/ \* fetch() throws
        /\ fetched' = [fetched EXCEPT ![p] = Append(@, Fetched(loc[p].discordUrlToTry, Threw))]
        /\ FetchError(p)
        /\ loc' = loc
     \/ \E response \in SourceResponses :
          LET discordUrl == loc[p].discordUrl
              alt == getAlternativeDiscordUrl(discordUrl)
          IN
          /\ fetched' = [fetched EXCEPT ![p] = Append(@, Fetched(discordUrl, response))]
          /\ IF RetryOn(response)
             THEN IF alt # discordUrl
                  THEN \* the second fetch is issued (line 238)
                       /\ pc' = [pc EXCEPT ![p] = "fetch2"]
                       /\ out' = out
                       /\ loc' = [loc EXCEPT ![p] =
                                    [@ EXCEPT !.response = response,
                                              !.discordUrlToTry = alt,
                                              !.attemptedUrls = <<discordUrl, alt>>]]
                  ELSE Validate(p, response, alt, <<discordUrl>>)
             ELSE Validate(p, response, discordUrl, <<discordUrl>>)
  /\ UNCHANGED <<store, today, nreq, req, written, derive, race>>

\* line 238: the second fetch completes.
Fetch2(p) ==
  /\ pc[p] = "fetch2"
  /\ Quiet
  /\ \/ /\ fetched' = [fetched EXCEPT ![p] = Append(@, Fetched(loc[p].discordUrlToTry, Threw))]
        /\ FetchError(p)
        /\ loc' = loc
     \/ \E response \in SourceResponses :
          /\ fetched' = [fetched EXCEPT ![p] =
                           Append(@, Fetched(loc[p].discordUrlToTry, response))]
          /\ Validate(p, response, loc[p].discordUrlToTry, loc[p].attemptedUrls)
  /\ UNCHANGED <<store, today, nreq, req, written, derive, race>>

\* lines 284-292: the hash is ready; the handler reads the date, builds the
\* path and issues the put.
Hash(p) ==
  /\ pc[p] = "hash"
  /\ Quiet
  /\ loc' = [loc EXCEPT ![p] =
               [@ EXCEPT !.shortHash = createShortHash(loc[p].discordUrl),
                         !.day = today,
                         !.fullPath = StoragePath(loc[p].discordUrl, loc[p].discordUrlToTry,
                                                  Dates[today])]]
  /\ pc' = [pc EXCEPT ![p] = "put"]
  /\ UNCHANGED <<store, today, nreq, req, fetched, out, written, derive, race>>

\* lines 292-308: the put completes and the handler reports success, or the
\* put throws and the catch of line 310 reports it.
Put(p) ==
  /\ pc[p] = "put"
  /\ Quiet
  /\ \/ /\ store' = BucketPut(store, loc[p].fullPath, loc[p].response,
                              PutOptions(loc[p].contentType))
        /\ Return(p, [NoOut EXCEPT
                        !.status = 200, !.contentType = JsonCT, !.jstatus = "success",
                        !.cachedUrl = CachedUrl(loc[p].fullPath),
                        !.originalUrl = loc[p].discordUrl,
                        !.finalUrl = loc[p].discordUrlToTry,
                        !.hash = loc[p].shortHash,
                        !.path = loc[p].fullPath])
        /\ written' = written \cup {loc[p].fullPath}
        /\ loc' = [loc EXCEPT ![p] = [@ EXCEPT !.puts = @ + 1]]
     \/ /\ store' = store
        /\ written' = written
        /\ FetchError(p)
        /\ loc' = [loc EXCEPT ![p] = [@ EXCEPT !.storeThrew = TRUE]]
  /\ UNCHANGED <<today, nreq, req, fetched, derive, race>>

\* line 332: obj.httpMetadata?.contentType || 'application/octet-stream'
ContentTypeOf(obj) ==
  IF obj.httpMetadata.contentType # NoCT THEN obj.httpMetadata.contentType ELSE OctetStream

\* lines 322-335: the get completes (or throws, caught at line 342).
Get(p) ==
  /\ pc[p] = "get"
  /\ Quiet
  /\ LET key == KeyOf(req[p].url) IN
     \/ /\ Return(p, JsonError(500, "Unknown error"))
        /\ loc' = [loc EXCEPT ![p] = [@ EXCEPT !.storeThrew = TRUE]]
     \/ LET obj == BucketGet(store, key) IN
        IF IsNull(obj)
        THEN /\ Return(p, TextResponse(404, "File not found"))
             /\ loc' = loc
        ELSE /\ Return(p, [NoOut EXCEPT !.status = 200,
                                        !.contentType = ContentTypeOf(obj),
                                        !.body = obj.body])
             /\ loc' = [loc EXCEPT ![p] = [@ EXCEPT !.obj = obj]]
  /\ UNCHANGED <<store, today, nreq, req, fetched, written, derive, race>>

\* Midnight passes.
Tick ==
  /\ Quiet
  /\ today < Len(Dates)
  /\ today' = today + 1
  /\ UNCHANGED <<store, nreq, pc, req, loc, fetched, out, written, derive, race>>

\* The handlers other than p that serve a write for the URL of p and have
\* not returned yet.
InFlightFor(p) ==
  {q \in Procs \ {p} :
     /\ pc[q] \in {"fetch1", "fetch2", "hash", "put"}
     /\ loc[q].discordUrl = loc[p].discordUrl}

\* The response of handler p leaves the worker and its invocation ends.
Deliver(p) ==
  /\ pc[p] = "done"
  /\ pc' = [pc EXCEPT ![p] = "idle"]
  /\ req' = [req EXCEPT ![p] = NoRequest]
  /\ loc' = [loc EXCEPT ![p] = NoLoc]
  /\ fetched' = [fetched EXCEPT ![p] = <<>>]
  /\ out' = [out EXCEPT ![p] = NoOut]
  /\ race' = IF out[p].jstatus = "success" /\ InFlightFor(p) # {}
             THEN [peer |-> CHOOSE q \in InFlightFor(p) : TRUE,
                   url |-> loc[p].discordUrl, day |-> loc[p].day,
                   cachedUrl |-> out[p].cachedUrl, response |-> loc[p].response]
             ELSE IF race.peer = p THEN NoRace
             ELSE race
  /\ UNCHANGED <<store, today, nreq, written, derive>>

Next ==
  \/ \E p \in Procs : Start(p)
  \/ \E p \in Procs : Fetch1(p)
  \/ \E p \in Procs : Fetch2(p)
  \/ \E p \in Procs : Hash(p)
  \/ \E p \in Procs : Put(p)
  \/ \E p \in Procs : Get(p)
  \/ \E p \in Procs : Deliver(p)
  \/ Tick

Spec == Init /\ [][Next]_vars

\* -------------------------------------------- the path derivation by itself

DeriveHosts == {"cdn.discordapp.com", "media.discordapp.net", "Images-Ext-1.discordapp.net"}
DeriveDirs == {<<"attachments", "1">>, <<"external">>}
DeriveFiles == {<<"a", "png">>, <<"b", "JPG">>}
DeriveQueries == {"", "ex=1", "ex=2"}

DeriveUrls ==
  { u \in { Url(h, d, f, q) : h \in DeriveHosts, d \in DeriveDirs,
                              f \in DeriveFiles, q \in DeriveQueries } : isDiscordUrl(u) }

DeriveDays ==
  { [fullYear |-> 2025, month |-> 0,  date |-> 11],
    [fullYear |-> 2025, month |-> 10, date |-> 1],
    [fullYear |-> 2025, month |-> 0,  date |-> 1],
    [fullYear |-> 2024, month |-> 11, date |-> 31] }

\* Two acceptable URLs that differ at most in their query, and two days.
DeriveInit ==
  /\ store = {}
  /\ today = 1
  /\ nreq = 0
  /\ pc = [p \in Procs |-> "idle"]
  /\ req = [p \in Procs |-> NoRequest]
  /\ loc = [p \in Procs |-> NoLoc]
  /\ fetched = [p \in Procs |-> <<>>]
  /\ out = [p \in Procs |-> NoOut]
  /\ written = {}
  /\ race = NoRace
  /\ \E u \in DeriveUrls, q \in DeriveQueries, d1 \in DeriveDays, d2 \in DeriveDays :
       derive = [NoDerive EXCEPT !.phase = "ready", !.url1 = u,
                                 !.url2 = [u EXCEPT !.query = q],
                                 !.day1 = d1, !.day2 = d2]

\* lines 269-290 applied to the inputs: url1 on day1 (twice), url2 on day1,
\* url1 on day2.
DeriveApply ==
  /\ derive.phase = "ready"
  /\ derive' = [derive EXCEPT
                  !.phase = "done",
                  !.path1 = StoragePath(derive.url1, derive.url1, derive.day1),
                  !.again1 = StoragePath(derive.url1, derive.url1, derive.day1),
                  !.path2 = StoragePath(derive.url2, derive.url2, derive.day1),
                  !.later1 = StoragePath(derive.url1, derive.url1, derive.day2)]
  /\ UNCHANGED <<store, today, nreq, pc, req, loc, fetched, out, written, race>>

DeriveNext == DeriveApply

SpecDerive == DeriveInit /\ [][DeriveNext]_vars

\* ================================================================== claims

Done(p) == pc[p] = "done"

\* Handler p serves POST /cache.
IsWrite(p) == req[p].method = "POST" /\ Pathname(req[p].url) = CachePath

\* Handler p serves GET on a path other than /cache.
IsRead(p) == req[p].method = "GET" /\ Pathname(req[p].url) # CachePath

SentUrl(p) == req[p].body.url

Success(s) == s >= 200 /\ s <= 299

JsonErrorOut(o) == o.contentType = JsonCT /\ o.jstatus = "error" /\ o.message # ""

HostOutsideAllowList(u) ==
  ToLowerCase(u.host) \notin
    {"cdn.discordapp.com", "media.discordapp.net", "images-ext-1.discordapp.net"}

LacksPathMarker(u) ==
  \A i \in 1..Len(u.dirs) : u.dirs[i] \notin {"attachments", "external"}

Unacceptable(u) ==
  \/ u.kind = "garbage"
  \/ u.kind = "url" /\ (HostOutsideAllowList(u) \/ LacksPathMarker(u))

\* C1: a POST /cache whose url has a host outside the allow-list, or a path
\* with neither marker, or does not parse as a URL, is judged unacceptable by
\* the validator and ends at once with status 400, with no outbound fetch
\* and no store write.
C1_UnacceptableUrlRejected ==
  \A p \in Procs :
    (IsWrite(p) /\ req[p].body.kind = "object" /\ Unacceptable(SentUrl(p)))
      => /\ ~isDiscordUrl(SentUrl(p))
         /\ Done(p)
         /\ out[p].status = 400
         /\ JsonErrorOut(out[p])
         /\ fetched[p] = <<>>
         /\ loc[p].puts = 0

\* A URL of an allowed host whose only marker is in its query was rejected.
C1_Witness ==
  \E p \in Procs :
    /\ IsWrite(p) /\ Done(p)
    /\ SentUrl(p).kind = "url"
    /\ ~HostOutsideAllowList(SentUrl(p))
    /\ LacksPathMarker(SentUrl(p))
    /\ SentUrl(p).query = "/attachments/"
    /\ out[p].status = 400

OtherFailure(s) == s # 0 /\ s # 403 /\ ~Success(s)

\* C2: within one write request the host-swapped second fetch is issued
\* only if the first fetch returned 403; a first fetch that returns another
\* non-success status ends the request as a failure after exactly one fetch.
C2_SwapOnlyAfterForbidden ==
  \A p \in Procs :
    IsWrite(p) =>
      /\ (pc[p] = "fetch2" \/ Len(fetched[p]) >= 2)
           => (Len(fetched[p]) >= 1 /\ fetched[p][1].status = 403)
      /\ (Len(fetched[p]) >= 1 /\ OtherFailure(fetched[p][1].status))
           => /\ Done(p)
              /\ Len(fetched[p]) = 1
              /\ out[p].status = fetched[p][1].status
              /\ out[p].jstatus = "error"

\* One handler has issued its second fetch after a 403 while another has
\* failed after a single fetch answered 404.
C2_Witness ==
  \E p \in Procs, q \in Procs :
    /\ IsWrite(p) /\ pc[p] = "fetch2" /\ fetched[p][1].status = 403
    /\ IsWrite(q) /\ Done(q) /\ Len(fetched[q]) = 1 /\ fetched[q][1].status = 404
    /\ out[q].status = 404

HasRecognizedExtension(file) ==
  /\ Len(file) >= 2
  /\ ToLowerCase(file[Len(file)]) \in {"jpg", "jpeg", "png", "gif", "webp"}

Mirror(u) == [u EXCEPT !.host = "media.discordapp.net"]

\* Every fetch of handler p was answered as by a source that forbids the cdn
\* host and serves an image from the mirror host.
CdnForbiddenMirrorServes(p) ==
  \A i \in 1..Len(fetched[p]) :
    /\ ToLowerCase(fetched[p][i].url.host) = "cdn.discordapp.com"
         => fetched[p][i].status = 403
    /\ ToLowerCase(fetched[p][i].url.host) = "media.discordapp.net"
         => (Success(fetched[p][i].status) /\ fetched[p][i].contentType = ImagePng)

\* C3: with a source that answers 403 on cdn.discordapp.com and serves an
\* image on media.discordapp.net, a POST /cache for a valid cdn URL with a
\* recognized extension succeeds with exactly two fetches, the first to the
\* cdn host, the second to the mirror host, and reports the mirror URL as
\* final_url.  (The bucket is taken to accept the put.)
C3_MirrorSucceedsInTwo ==
  \A p \in Procs :
    ( /\ IsWrite(p) /\ Done(p)
      /\ req[p].body.kind = "object"
      /\ SentUrl(p).kind = "url"
      /\ SentUrl(p).host = "cdn.discordapp.com"
      /\ ~LacksPathMarker(SentUrl(p))
      /\ HasRecognizedExtension(SentUrl(p).file)
      /\ CdnForbiddenMirrorServes(p)
      /\ ~loc[p].storeThrew )
    => /\ out[p].status = 200
       /\ out[p].jstatus = "success"
       /\ Len(fetched[p]) = 2
       /\ fetched[p][1].url = SentUrl(p)
       /\ fetched[p][2].url = Mirror(SentUrl(p))
       /\ out[p].finalUrl = Mirror(SentUrl(p))

C3_Witness ==
  \E p \in Procs :
    /\ IsWrite(p) /\ Done(p)
    /\ SentUrl(p).host = "cdn.discordapp.com"
    /\ CdnForbiddenMirrorServes(p)
    /\ Len(fetched[p]) = 2
    /\ out[p].jstatus = "success"
    /\ out[p].finalUrl.host = "media.discordapp.net"

\* The object the bucket holds for the cached_url that request url names.
StoredFor(requestUrl) == {o \in store : CachedUrl(o.key) = requestUrl}

\* C4: round trip.  After a successful POST /cache, a GET on the path of the
\* returned cached_url answers 200 with the bytes fetched from the source
\* and with the content type of the source response.  (The bucket is taken
\* to answer the get.)
C4_RoundTrip ==
  \A g \in Procs :
    (IsRead(g) /\ Done(g) /\ ~loc[g].storeThrew) =>
      \A o \in StoredFor(req[g].url) :
        /\ out[g].status = 200
        /\ out[g].body = o.source.body
        /\ out[g].contentType = o.source.contentType

NotImage(ct) == IF ct = NoCT THEN TRUE ELSE ct[1] # "image"

\* C5: a write whose successful (2xx) source response has a content type
\* that does not begin with "image/" (text/html, or none at all) is rejected
\* with status 400 as a validation error; no further fetch follows that
\* response and no object is persisted.
C5_NonImageRejected ==
  \A p \in Procs :
    IsWrite(p) =>
      \A i \in 1..Len(fetched[p]) :
        (Success(fetched[p][i].status) /\ NotImage(fetched[p][i].contentType))
          => /\ i = Len(fetched[p])
             /\ Done(p)
             /\ out[p].status = 400
             /\ JsonErrorOut(out[p])
             /\ out[p].message = "Invalid content type"
             /\ loc[p].puts = 0

\* The mirror host answered 200 text/html after the first host answered 403.
C5_Witness ==
  \E p \in Procs :
    /\ IsWrite(p) /\ Done(p)
    /\ Len(fetched[p]) = 2
    /\ fetched[p][2].status = 200
    /\ fetched[p][2].contentType = TextHtml
    /\ out[p].status = 400

\* The body is missing, is not JSON, or is JSON without a url field.
BodyWithoutUrl(b) ==
  \/ b.kind \in {"invalid", "null", "scalar"}
  \/ b.kind = "object" /\ b.url.kind = "undefined"

\* C6: a POST /cache whose body is missing, is not JSON, or is JSON that
\* lacks a url field (JSON null included) returns 400, never 500, with no
\* outbound fetch and no store write.
C6_BadBodyIs400 ==
  \A p \in Procs :
    (IsWrite(p) /\ BodyWithoutUrl(req[p].body))
      => /\ Done(p)
         /\ out[p].status = 400
         /\ fetched[p] = <<>>
         /\ loc[p].puts = 0

\* C7: a write whose final URL's last path segment has no extension, or one
\* outside {jpg, jpeg, png, gif, webp} after lower-casing, is rejected with
\* 400 and persists nothing; only a last segment ending in one of those
\* extensions reaches the store write.
C7_OnlyImageExtensionsStored ==
  \A p \in Procs :
    IsWrite(p) =>
      /\ (pc[p] = "put" \/ loc[p].puts > 0)
           => HasRecognizedExtension(loc[p].discordUrlToTry.file)
      /\ ( /\ Len(fetched[p]) >= 1
           /\ Success(fetched[p][Len(fetched[p])].status)
           /\ ~NotImage(fetched[p][Len(fetched[p])].contentType)
           /\ ~HasRecognizedExtension(fetched[p][Len(fetched[p])].url.file) )
           => (Done(p) /\ out[p].status = 400 /\ loc[p].puts = 0)

\* The text of a path before its first "/".
RECURSIVE DatePrefix(_)
DatePrefix(path) ==
  IF path = <<>> \/ Head(path) = "/" THEN <<>>
  ELSE <<Head(path)>> \o DatePrefix(Tail(path))

\* C8: for an acceptable URL the derived storage path is the same when
\* derived again with the same date, the same for a URL that differs only in
\* its query parameters, and has another date prefix on another calendar day.
C8_DerivationStable ==
  derive.phase = "done" =>
    /\ derive.again1 = derive.path1
    /\ derive.path2 = derive.path1
    /\ derive.day1 # derive.day2 => DatePrefix(derive.later1) # DatePrefix(derive.path1)

\* Paths were derived for two URLs with different queries on the 11th of
\* January and the 1st of November.
C8_Witness ==
  /\ derive.phase = "done"
  /\ derive.url1.query # derive.url2.query
  /\ derive.url1.query # "" /\ derive.url2.query # ""
  /\ derive.day1 = [fullYear |-> 2025, month |-> 0, date |-> 11]
  /\ derive.day2 = [fullYear |-> 2025, month |-> 10, date |-> 1]
  /\ derive.path1 # <<>>

\* C9, on states: a GET for a path at which nothing was ever written answers
\* 404 "File not found" and has issued no fetch and no put.  (The bucket is
\* taken to answer the get.)
C9_NeverWrittenIs404 ==
  \A g \in Procs :
    (IsRead(g) /\ Done(g) /\ ~loc[g].storeThrew /\ KeyOf(req[g].url) \notin written)
      => /\ out[g].status = 404
         /\ out[g].body = "File not found"
         /\ fetched[g] = <<>>
         /\ loc[g].puts = 0

\* C9, on steps: no step of a GET request changes the store.
C9_ReadsLeaveStore ==
  \A g \in Procs : (IsRead(g) /\ pc[g] # pc'[g]) => (store' = store /\ written' = written)

\* C9: a GET for a never-written path returns 404 "File not found" with the
\* store unchanged and no outbound fetch, and no GET request, whatever its
\* path, modifies the store.
C9_ReadHasNoEffect == []C9_NeverWrittenIs404 /\ [][C9_ReadsLeaveStore]_vars

\* A GET found nothing at a never-written path while the store held an
\* object under another key.
C9_Witness ==
  \E g \in Procs :
    /\ IsRead(g) /\ Done(g)
    /\ KeyOf(req[g].url) \notin written
    /\ store # {}
    /\ out[g].status = 404

AllFailed(p) ==
  /\ Len(fetched[p]) >= 1
  /\ \A i \in 1..Len(fetched[p]) : fetched[p][i].status # 0 /\ ~Success(fetched[p][i].status)

LastFetchThrew(p) ==
  Len(fetched[p]) >= 1 /\ fetched[p][Len(fetched[p])].status = 0

\* C10: a failing write or read ends in an error response, never a success:
\* when every attempted variant returned a non-success status the response
\* carries the status of the last attempt; a fetch that throws, a put or get
\* that throws, or another uncaught failure gives 500; each such response is
\* JSON with status "error" and a message.
C10_FailuresAreErrors ==
  \A p \in Procs :
    Done(p) =>
      /\ (IsWrite(p) /\ AllFailed(p))
           => /\ out[p].status = fetched[p][Len(fetched[p])].status
              /\ JsonErrorOut(out[p])
      /\ (IsWrite(p) /\ LastFetchThrew(p))
           => (out[p].status = 500 /\ JsonErrorOut(out[p]))
      /\ loc[p].storeThrew
           => (out[p].status = 500 /\ JsonErrorOut(out[p]))
      /\ (IsWrite(p) /\ req[p].body.kind = "null")
           => (out[p].status = 500 /\ JsonErrorOut(out[p]))
      /\ (IsWrite(p) /\ out[p].jstatus = "success")
           => /\ ~loc[p].storeThrew
              /\ loc[p].puts = 1
              /\ Len(fetched[p]) >= 1
              /\ Success(fetched[p][Len(fetched[p])].status)
      /\ (IsRead(p) /\ out[p].status = 200)
           => (~loc[p].storeThrew /\ loc[p].obj \in store)

\* Both hosts answered with a failure, the second with 404, and the
\* response carries 404.
C10_Witness ==
  \E p \in Procs :
    /\ IsWrite(p) /\ Done(p)
    /\ Len(fetched[p]) = 2
    /\ fetched[p][1].status = 403 /\ fetched[p][2].status = 404
    /\ out[p].status = 404
    /\ JsonErrorOut(out[p])

Keys(bucket) == {o.key : o \in bucket}

\* A step of C11: no key leaves the store; a step that changes the store is
\* the step in which one POST /cache returns success, and it puts one key
\* and leaves every other object as it was; a step in which a request ends
\* without success leaves the store as it was.
C11_StoreStep ==
  /\ Keys(store) \subseteq Keys(store')
  /\ store' # store =>
       \E p \in Procs :
         /\ IsWrite(p)
         /\ pc[p] # "done" /\ pc'[p] = "done"
         /\ out'[p].status = 200 /\ out'[p].jstatus = "success"
         /\ \E o \in store' :
              /\ CachedUrl(o.key) = out'[p].cachedUrl
              /\ store' \ {o} = {x \in store : x.key # o.key}
  /\ \A p \in Procs :
       (pc[p] # "done" /\ pc'[p] = "done" /\ out'[p].jstatus # "success")
         => store' = store

\* C11: the store is append-/overwrite-only: the only change a request makes
\* to it is the put of one key by a POST /cache that then returns success;
\* a request that ends without success leaves it as it was, and no request
\* removes a key.  (A put that throws is taken to have stored nothing.)
C11_AppendOrOverwriteOnly == [][C11_StoreStep]_vars

\* A write has just succeeded next to an object stored earlier under
\* another key.
C11_Witness ==
  \E p \in Procs :
    /\ IsWrite(p) /\ Done(p)
    /\ out[p].jstatus = "success"
    /\ Cardinality(store) = 2

\* C12: a request that is neither POST /cache nor GET on a path other than
\* /cache returns 404 "Not found" at once: it issues no fetch and never
\* waits for the bucket.
C12_OtherRequestsNotFound ==
  \A p \in Procs :
    ( /\ req[p] # NoRequest
      /\ ~(req[p].method = "POST" /\ Tail(req[p].url) = <<"/", "cache">>)
      /\ ~(req[p].method = "GET" /\ Tail(req[p].url) # <<"/", "cache">>) )
    => /\ Done(p)
       /\ out[p].status = 404
       /\ out[p].body = "Not found"
       /\ out[p].contentType = TextPlain
       /\ fetched[p] = <<>>
       /\ loc[p] = NoLoc

\* GET /cache was answered 404 "Not found" while the bucket held an object.
C12_Witness ==
  \E p \in Procs :
    /\ Done(p)
    /\ req[p].method = "GET" /\ Tail(req[p].url) = <<"/", "cache">>
    /\ out[p].status = 404
    /\ store # {}

ForbiddenTwice(p) ==
  /\ Len(fetched[p]) >= 2
  /\ fetched[p][1].status = 403
  /\ fetched[p][2].status = 403

\* C13: when the host-swapped attempt is answered 403 too, a third fetch is
\* made with all query parameters stripped, and if it is served an image the
\* write succeeds on that third attempt; no parameter-stripped retry is made
\* before both earlier attempts have failed.
C13_StripAfterTwoForbidden ==
  \A p \in Procs :
    (IsWrite(p) /\ Done(p)) =>
      /\ ForbiddenTwice(p)
           => /\ Len(fetched[p]) = 3
              /\ fetched[p][3].url.query = ""
              /\ ( /\ Success(fetched[p][3].status)
                   /\ ~NotImage(fetched[p][3].contentType)
                   /\ HasRecognizedExtension(fetched[p][3].url.file)
                   /\ ~loc[p].storeThrew )
                   => out[p].jstatus = "success"
      /\ Len(fetched[p]) >= 3 => ForbiddenTwice(p)

\* Query strings that hold nothing but allow-listed parameters (format,
\* quality): of the queries of the model, the empty one.
AllowListedQueries == {""}

\* C14: the first fetch of a write goes to the source URL with its
\* non-essential query parameters stripped, and every fetch of the request
\* carries the same browser-like headers (user agent, accept, referrer,
\* origin).
C14_FirstFetchStripped ==
  \A p \in Procs :
    IsWrite(p) =>
      /\ Len(fetched[p]) >= 1 => fetched[p][1].url.query \in AllowListedQueries
      /\ \A i \in 1..Len(fetched[p]) :
           /\ {"User-Agent", "Accept", "Referer", "Origin"} \subseteq fetched[p][i].headers
           /\ fetched[p][i].headers = fetched[p][1].headers

FetchedUrls(p) == [i \in 1..Len(fetched[p]) |-> fetched[p][i].url]

\* C16: the error report of a fetch failure, be it a non-success status from
\* every attempted variant or a fetch that threw, lists the URL of every
\* outbound fetch of the request, in the order tried, and nothing else.
C16_ReportListsAttempts ==
  \A p \in Procs :
    (IsWrite(p) /\ Done(p) /\ (AllFailed(p) \/ LastFetchThrew(p)))
      => out[p].attemptedUrls = FetchedUrls(p)

PathComputed(p) == IsWrite(p) /\ loc[p].fullPath # <<>>

\* The characters of a storage path between its "/" and its last ".".
HashPart(path) == SubSeq(path, Len(DatePrefix(path)) + 2, Len(path) - 2)

ExtPart(path) == path[Len(path)]

\* C15: the hash part of the storage path comes from the original source
\* URL, never from a fallback variant, so two writes for the same source URL
\* on the same day store under the same path whether the first or the
\* host-swapped attempt succeeded; the extension comes from the final URL.
C15_HashOfOriginalUrl ==
  /\ \A p \in Procs :
       PathComputed(p) =>
         /\ HashPart(loc[p].fullPath) = createShortHash(SentUrl(p))
         /\ ExtPart(loc[p].fullPath) = ToLowerCase(Last(loc[p].discordUrlToTry.file))
         /\ DatePrefix(loc[p].fullPath) = FolderName(Dates[loc[p].day])
  /\ \A p \in Procs, q \in Procs :
       (PathComputed(p) /\ PathComputed(q) /\ SentUrl(p) = SentUrl(q)
          /\ loc[p].day = loc[q].day)
         => loc[p].fullPath = loc[q].fullPath

\* Two writes for one URL on one day, one answered at the first attempt and
\* one at the host-swapped attempt, have the same path.
C15_Witness ==
  \E p \in Procs, q \in Procs :
    /\ PathComputed(p) /\ PathComputed(q)
    /\ SentUrl(p) = SentUrl(q)
    /\ loc[p].day = loc[q].day
    /\ Len(fetched[p]) = 1 /\ Len(fetched[q]) = 2
    /\ loc[q].discordUrlToTry # SentUrl(q)
    /\ loc[p].fullPath = loc[q].fullPath

DecimalDigits == {HexChars[i] : i \in 1..10}

HexDigits == {HexChars[i] : i \in 1..16}

\* {8-digit date}/{8-hex-character hash}.{ext}, ext an image extension
WellFormedKey(key) ==
  /\ Len(key) = 19
  /\ \A i \in 1..8 : key[i] \in DecimalDigits
  /\ key[9] = "/"
  /\ \A i \in 10..17 : key[i] \in HexDigits
  /\ key[18] = "."
  /\ key[19] \in {"jpg", "jpeg", "png", "gif", "webp"}

\* C18: in every reachable state every stored object was written from a
\* source response with a success status and a content type beginning with
\* image/, holds the body of that response, and has a key of the form
\* {8-digit date}/{8-hex-character hash}.{ext} with ext an image extension;
\* the body of a failed response is never stored.
C18_StoreHoldsOnlyFetchedImages ==
  \A o \in store :
    /\ Success(o.source.status)
    /\ o.source.contentType # NoCT
    /\ Head(o.source.contentType) = "image"
    /\ o.body = o.source.body
    /\ o.source \in SourceResponses
    /\ WellFormedKey(o.key)

\* The store holds an object while a write whose every fetch failed ends:
\* nothing of the failed responses is in the store.
C18_Witness ==
  /\ store # {}
  /\ \E p \in Procs : Done(p) /\ IsWrite(p) /\ AllFailed(p) /\ Len(fetched[p]) = 2

\* The order of the positions of a handler within one request.
Rank(position) ==
  CASE position = "idle" -> 0
    [] position = "get" -> 1
    [] position = "fetch1" -> 1
    [] position = "fetch2" -> 2
    [] position = "hash" -> 3
    [] position = "put" -> 4
    [] position = "done" -> 5

C19_AtMostTwoFetches ==
  \A p \in Procs :
    /\ Len(fetched[p]) <= 2
    /\ \A i \in 1..Len(fetched[p]), j \in 1..Len(fetched[p]) :
         i # j => fetched[p][i].url # fetched[p][j].url
    /\ Len(fetched[p]) = 2 =>
         /\ fetched[p][1].status = 403
         /\ fetched[p][2].url = getAlternativeDiscordUrl(SentUrl(p))
         /\ fetched[p][2].url # SentUrl(p)
    /\ (/\ IsWrite(p) /\ Len(fetched[p]) >= 1
        /\ Hostname(fetched[p][1].url) = "images-ext-1.discordapp.net"
        /\ fetched[p][1].status = 403)
         => Done(p) /\ Len(fetched[p]) = 1 /\ out[p].status = 403
    /\ Done(p) <=> out[p] # NoOut

\* Every step of a handler moves it forward within its request, a response
\* once returned is not replaced, and a handler leaves done only by the
\* delivery of its response.
C19_Step ==
  /\ C19_AtMostTwoFetches'
  /\ \A p \in Procs :
       /\ pc'[p] # pc[p] =>
            \/ Rank(pc'[p]) > Rank(pc[p])
            \/ pc[p] = "done" /\ pc'[p] = "idle"
       /\ out[p] # NoOut => out'[p] = NoOut /\ pc'[p] = "idle"
       /\ Len(fetched'[p]) > Len(fetched[p]) =>
            /\ Len(fetched'[p]) = Len(fetched[p]) + 1
            /\ pc[p] \in {"fetch1", "fetch2"}

\* C19: a write request issues at most two outbound fetches and never
\* fetches one URL twice; the second fetch happens only after a 403 and only
\* when the host swap gave a different URL, so a 403 for a URL on
\* images-ext-1.discordapp.net ends the request after one fetch with status
\* 403; a request moves forward through finitely many positions and returns
\* exactly one response.
C19_BoundedFetchesOneResponse == [][C19_Step]_vars

\* A write for a URL on images-ext-1.discordapp.net ended with 403 after one
\* fetch.
C19_Witness ==
  \E p \in Procs :
    /\ IsWrite(p) /\ Done(p)
    /\ Hostname(SentUrl(p)) = "images-ext-1.discordapp.net"
    /\ Len(fetched[p]) = 1
    /\ fetched[p][1].status = 403
    /\ out[p].status = 403

\* The put of handler q completes and q reports success.
PutSucceeds(q) ==
  IsWrite(q) /\ pc[q] = "put" /\ pc'[q] = "done" /\ out'[q].jstatus = "success"

\* Handler q serves the same source URL on the same day as the write that
\* ended while q was in flight.
SecondOfRace(q) ==
  race.peer = q /\ race.url = SentUrl(q) /\ race.day = loc[q].day

C17_Step ==
  \A q \in Procs :
    PutSucceeds(q) =>
      LET k == loc[q].fullPath IN
      /\ {o \in store' : o.key # k} = {o \in store : o.key # k}
      /\ SecondOfRace(q) =>
           /\ Cardinality({o \in store' : o.key = k}) = 1
           /\ \A o \in store' :
                o.key = k =>
                  \E r \in {race.response, loc[q].response} :
                    /\ o.body = r.body
                    /\ o.httpMetadata.contentType = r.contentType
           /\ out'[q].cachedUrl = race.cachedUrl
           /\ CachedUrl(k) = race.cachedUrl

\* C17: two concurrent writes for one source URL on one day race
\* harmlessly: when the second has completed the store holds exactly one
\* object at the derived key, that object has the bytes and the content type
\* of the response one of the two fetched, both report the same cached_url,
\* and the objects under all other keys are unchanged.
C17_RaceIsHarmless == [][C17_Step]_vars

====
